---- MODULE Spec2Model ----
(***************************************************************************)
(* CalendarBot (Jony251/CalendarBot): the event-extraction pipeline of     *)
(* src/bot.py together with CalendarService.create_event.                  *)
(*                                                                         *)
(* Two specifications:                                                     *)
(*   SpecText  the text functions of bot.py (_normalize_text and what it   *)
(*             calls) applied to texts typed fragment by fragment;         *)
(*   Spec      one run of _handle_text_common per message, split at the    *)
(*             calls it makes to its collaborators (the generative         *)
(*             service, the free-text date parser, the calendar).          *)
(*                                                                         *)
(* A text is a sequence of characters, each character a one-element        *)
(* string.  SANY reads ASCII only, so a Cyrillic letter is written as "c"  *)
(* followed by its transliteration: "cv" is the letter в, "cch" is ч.      *)
(* Only lower-case letters are modelled (the regexes are IGNORECASE).      *)
(***************************************************************************)
EXTENDS Integers, Sequences, FiniteSets, TLC

VARIABLES
    text,        \* SpecText: the raw text typed so far
    nfrag,       \* SpecText: number of fragments typed
    stage,       \* SpecText: "typing" | "once" | "twice"
    once,        \* SpecText: _normalize_text(text)
    twice,       \* SpecText: _normalize_text(_normalize_text(text))
    first_time,  \* SpecText: _extract_first_time(once)
    guessed_minutes, \* SpecText: _fallback_duration_minutes(once)
    pc,          \* Spec: where the run of the handler stands
    path,        \* Spec: "none" | "explicit" | "blended", the branch taken at bot.py 437
    raw,         \* Spec: update.message.text
    normalized,  \* Spec: bot.py 434
    explicit,    \* Spec: bot.py 436
    primary,     \* Spec: what _openai_extract_event_json did in this run
    title,       \* Spec: local of _handle_text_common
    duration,    \* Spec: local of _handle_text_common
    notes,       \* Spec: local of _handle_text_common
    start_dt,    \* Spec: local of _handle_text_common
    end_dt,      \* Spec: local of _handle_text_common
    start_query, \* Spec: the text last handed to the date parser for the start
    calls,       \* Spec: calls of cal.create_event in this run
    passed,      \* Spec: the arguments of that call
    result,      \* Spec: what cal.create_event returned or raised
    replies,     \* Spec: the messages sent by reply_text in this run
    exc,         \* Spec: the exception that left the handler, "none" if none did
    source,      \* Spec: "none" | "text" | "voice", the handler that took the update
    transcriptions, \* Spec: calls of speech.transcribe for this update
    primary_calls,  \* Spec: calls of _openai_extract_event_json for this update
    voice_replies   \* Spec: the messages sent by handle_voice itself

textVars == <<text, nfrag, stage, once, twice, first_time, guessed_minutes>>

handlerVars ==
    <<pc, path, raw, normalized, explicit, primary, title, duration, notes,
      start_dt, end_dt, start_query, calls, passed, result, replies, exc>>

callVars == <<source, transcriptions, primary_calls, voice_replies>>

vars == <<textVars, handlerVars, callVars>>

----------------------------------------------------------------------------
(* Characters and character classes of Python's re on str patterns.        *)

DigitChars == <<"0", "1", "2", "3", "4", "5", "6", "7", "8", "9">>

IsDigit(c) == \E k \in 1..10 : DigitChars[k] = c

DigitVal(c) == (CHOOSE k \in 1..10 : DigitChars[k] = c) - 1

\* \s
IsSpace(c) == c \in {" ", "\n", "\t"}

\* The characters of the model that are not \w.
NonWordChars ==
    {" ", "\n", "\t", "-", ".", ":", ",", ";", "=", "(", ")", "u2013", "u2014"}

\* \w
IsWord(c) == c \notin NonWordChars

\* \b before position i (1-based; i = Len(t)+1 is the end of the text).
WordBoundary(t, i) ==
    LET before == i > 1 /\ i - 1 <= Len(t) /\ IsWord(t[i - 1])
        after  == i >= 1 /\ i <= Len(t) /\ IsWord(t[i])
    IN  before # after

\* The least element of a non-empty set of integers.
Min(S) == CHOOSE i \in S : \A j \in S : i <= j

DigitAt(t, i) == i >= 1 /\ i <= Len(t) /\ IsDigit(t[i])

\* w occurs in t at position i.
LitAt(t, i, w) ==
    /\ i >= 1
    /\ i + Len(w) - 1 <= Len(t)
    /\ \A k \in 1..Len(w) : t[i + k - 1] = w[k]

\* Greedy \s*: the first position >= i that holds no whitespace.
RECURSIVE SkipSpace(_, _)
SkipSpace(t, i) ==
    IF i <= Len(t) /\ IsSpace(t[i]) THEN SkipSpace(t, i + 1) ELSE i

Slice(t, i, j) == IF j < i THEN <<>> ELSE SubSeq(t, i, j)

\* str.strip()
RECURSIVE LStrip(_)
LStrip(t) == IF Len(t) > 0 /\ IsSpace(t[1]) THEN LStrip(Tail(t)) ELSE t

RECURSIVE RStrip(_)
RStrip(t) ==
    IF Len(t) > 0 /\ IsSpace(t[Len(t)]) THEN RStrip(SubSeq(t, 1, Len(t) - 1)) ELSE t

Strip(t) == RStrip(LStrip(t))

\* int(s) for a string of one or two digits.
IntOf(s) ==
    IF Len(s) = 1 THEN DigitVal(s[1]) ELSE DigitVal(s[1]) * 10 + DigitVal(s[2])

\* f"{h:02d}" for 0 <= h <= 99.
Fmt2(h) == <<DigitChars[(h \div 10) + 1], DigitChars[(h % 10) + 1]>>

----------------------------------------------------------------------------
(* _RU_NUM_WORDS and the words of the word-time regex, bot.py 31-48, 91-92 *)

W_v           == <<"cv">>                                             \* в
W_chas        == <<"cch", "ca", "cs">>                                \* час
W_a           == <<"ca">>                                             \* а
W_ov          == <<"co", "cv">>                                       \* ов
W_utra        == <<"cu", "ct", "cr", "ca">>                           \* утра
W_dnya        == <<"cd", "cn", "cya">>                                \* дня
W_vechera     == <<"cv", "ce", "cch", "ce", "cr", "ca">>              \* вечера
W_nochi       == <<"cn", "co", "cch", "ci">>                          \* ночи
W_nol         == <<"cn", "co", "cl", "c'">>                           \* ноль
W_odin        == <<"co", "cd", "ci", "cn">>                           \* один
W_odna        == <<"co", "cd", "cn", "ca">>                           \* одна
W_odno        == <<"co", "cd", "cn", "co">>                           \* одно
W_dva         == <<"cd", "cv", "ca">>                                 \* два
W_dve         == <<"cd", "cv", "ce">>                                 \* две
W_tri         == <<"ct", "cr", "ci">>                                 \* три
W_chetyre     == <<"cch", "ce", "ct", "cy", "cr", "ce">>              \* четыре
W_pyat        == <<"cp", "cya", "ct", "c'">>                          \* пять
W_shest       == <<"csh", "ce", "cs", "ct", "c'">>                    \* шесть
W_sem         == <<"cs", "ce", "cm", "c'">>                           \* семь
W_vosem       == <<"cv", "co", "cs", "ce", "cm", "c'">>               \* восемь
W_devyat      == <<"cd", "ce", "cv", "cya", "ct", "c'">>              \* девять
W_desyat      == <<"cd", "ce", "cs", "cya", "ct", "c'">>              \* десять
W_odinnadcat  == <<"co", "cd", "ci", "cn", "cn", "ca", "cd", "cc", "ca", "ct", "c'">>  \* одиннадцать
W_dvenadcat   == <<"cd", "cv", "ce", "cn", "ca", "cd", "cc", "ca", "ct", "c'">>        \* двенадцать

\* _RU_NUM_WORDS.get(w, -1)
_RU_NUM_WORDS(w) ==
    CASE w = W_nol        -> 0
      [] w = W_odin       -> 1
      [] w = W_odna       -> 1
      [] w = W_odno       -> 1
      [] w = W_dva        -> 2
      [] w = W_dve        -> 2
      [] w = W_tri        -> 3
      [] w = W_chetyre    -> 4
      [] w = W_pyat       -> 5
      [] w = W_shest      -> 6
      [] w = W_sem        -> 7
      [] w = W_vosem      -> 8
      [] w = W_devyat     -> 9
      [] w = W_desyat     -> 10
      [] w = W_odinnadcat -> 11
      [] w = W_dvenadcat  -> 12
      [] OTHER            -> -1

\* The hour words of the regex, in the order of its alternation (after \d{1,2}).
HourWords ==
    <<W_odin, W_odna, W_dva, W_dve, W_tri, W_chetyre, W_pyat, W_shest, W_sem,
      W_vosem, W_devyat, W_desyat, W_odinnadcat, W_dvenadcat>>

\* (?P<part>утра|дня|вечера|ночи), in the order of the alternation.
PartWords == <<W_utra, W_dnya, W_vechera, W_nochi>>

----------------------------------------------------------------------------
(* _ru_hour_to_24h, bot.py 51-64                                           *)

\* The noon exception left out: evening and afternoon add 12 to 12 as well.
ru_hour_to_24h_NoNoon(hour, part) ==
    IF part \in {W_vechera, W_dnya}
    THEN IF 1 <= hour /\ hour <= 12 THEN hour + 12 ELSE hour
    ELSE IF part = W_nochi
         THEN IF hour = 12 THEN 0 ELSE hour
         ELSE hour

_ru_hour_to_24h(hour, part) ==
    IF part \in {W_vechera, W_dnya}
    THEN IF 1 <= hour /\ hour <= 11 THEN hour + 12 ELSE hour
    ELSE IF part = W_nochi
         THEN IF hour = 12 THEN 0 ELSE hour
         ELSE hour

----------------------------------------------------------------------------
(* _normalize_russian_word_time, bot.py 67-98                              *)

NoMatch == [len |-> 0]

\* The rest of the regex after the hour group, tried at position j:
\*   (?:\s*час(?:а|ов)?)?\s*(?P<part>...)\b
\* Result: [len |-> characters matched from j, part |-> the part word] or NoMatch.
PartAt(t, j) ==
    LET k == SkipSpace(t, j)
        ps == {p \in 1..Len(PartWords) :
                  /\ LitAt(t, k, PartWords[p])
                  /\ WordBoundary(t, k + Len(PartWords[p]))}
    IN  IF ps = {} THEN NoMatch
        ELSE LET p == CHOOSE q \in ps : \A r \in ps : q <= r
             IN  [len |-> k + Len(PartWords[p]) - j, part |-> PartWords[p]]

\* The first alternative of a regex that matched, in the order the regex
\* engine tries them.
FirstMatch(alternatives) ==
    LET ks == {k \in DOMAIN alternatives : alternatives[k].len > 0}
    IN  IF ks = {} THEN NoMatch ELSE alternatives[Min(ks)]

\* A match m of the rest of a pattern, found n characters further on.
Shift(m, n) == IF m.len > 0 THEN [m EXCEPT !.len = @ + n] ELSE NoMatch

\* The matches among the attempts at every position: position |-> match.
Matches(all) == [k \in {n \in DOMAIN all : all[n].len > 0} |-> all[k]]

\* (?:а|ов)? is greedy: the suffix first, then without it
ChasSuffixAt(t, e) ==
    FirstMatch(<<IF LitAt(t, e, W_a) THEN Shift(PartAt(t, e + 1), 1) ELSE NoMatch,
                 IF LitAt(t, e, W_ov) THEN Shift(PartAt(t, e + 2), 2) ELSE NoMatch,
                 PartAt(t, e)>>)

TailAt(t, j) ==
    LET withChas(k) ==
            IF LitAt(t, k, W_chas)
            THEN Shift(ChasSuffixAt(t, k + Len(W_chas)), k + Len(W_chas) - j)
            ELSE NoMatch
    IN  FirstMatch(<<withChas(SkipSpace(t, j)), PartAt(t, j)>>)

\* The hour group tried at position j with hour text of length n, then the tail.
HourThenTail(t, j, n) ==
    LET hour(tl) ==
            IF tl.len > 0
            THEN [len |-> n + tl.len, hour |-> SubSeq(t, j, j + n - 1), part |-> tl.part]
            ELSE NoMatch
    IN  hour(TailAt(t, j + n))

\* (?P<hour>\d{1,2}|ноль|...|двенадцать) at position j: the lengths the hour
\* group can take, in the order the regex engine tries them.
HourLengths(t, j) ==
    (IF DigitAt(t, j) /\ DigitAt(t, j + 1) THEN <<2>> ELSE <<>>)
    \o (IF DigitAt(t, j) THEN <<1>> ELSE <<>>)
    \o LET ws == SelectSeq(HourWords, LAMBDA w : LitAt(t, j, w))
       IN  [k \in DOMAIN ws |-> Len(ws[k])]

\* The whole regex tried at position i.
\* Result: [len, hour, part] with len > 0, or NoMatch.
WordTimeAt(t, i) ==
    IF ~(WordBoundary(t, i) /\ LitAt(t, i, W_v) /\ i + 1 <= Len(t) /\ IsSpace(t[i + 1]))
    THEN NoMatch
    ELSE LET from(j) ==
                 LET try(ns) == FirstMatch([k \in DOMAIN ns |-> HourThenTail(t, j, ns[k])])
                 IN  Shift(try(HourLengths(t, j)), j - i)
         IN  from(SkipSpace(t, i + 1))

\* repl(m), bot.py 70-83
repl(t, i, m) ==
    LET raw_hour == m.hour
        h == IF \A k \in 1..Len(raw_hour) : IsDigit(raw_hour[k])
             THEN IntOf(raw_hour)
             ELSE _RU_NUM_WORDS(raw_hour)
    IN  IF h < 0 \/ h > 23
        THEN SubSeq(t, i, i + m.len - 1)
        ELSE Fmt2(_ru_hour_to_24h(h, m.part)) \o <<":", "0", "0">>

\* re.sub(pattern, repl, t): the text up to the leftmost match, its replacement,
\* and the same for the text after the match.
RECURSIVE WordTimeSub(_, _)
WordTimeSub(t, i) ==
    LET sub(ms) ==
            IF DOMAIN ms = {} THEN Slice(t, i, Len(t))
            ELSE LET at(n, m) ==
                         Slice(t, i, n - 1) \o repl(t, n, m) \o WordTimeSub(t, n + m.len)
                 IN  at(Min(DOMAIN ms), ms[Min(DOMAIN ms)])
    IN  sub(Matches([k \in i..Len(t) |-> WordTimeAt(t, k)]))

_normalize_russian_word_time(t) == WordTimeSub(t, 1)

----------------------------------------------------------------------------
(* _normalize_text, bot.py 101-106                                         *)

\* \b(\d{1,2})[-.](\d{2})\b at position i:
\* [len, g1, g2] with len > 0, or NoMatch.
DashTimeAt(t, i) ==
    LET try(n) ==
            /\ WordBoundary(t, i)
            /\ \A k \in 0..(n - 1) : DigitAt(t, i + k)
            /\ i + n <= Len(t) /\ t[i + n] \in {"-", "."}
            /\ DigitAt(t, i + n + 1) /\ DigitAt(t, i + n + 2)
            /\ WordBoundary(t, i + n + 3)
        res(n) == [len |-> n + 3, g1 |-> SubSeq(t, i, i + n - 1),
                   g2 |-> SubSeq(t, i + n + 1, i + n + 2)]
    IN  IF try(2) THEN res(2) ELSE IF try(1) THEN res(1) ELSE NoMatch

\* \b(\d{1,2})\s*h\s*(\d{2})\b at position i (IGNORECASE).
HTimeAt(t, i) ==
    LET try(n) ==
            LET a == SkipSpace(t, i + n)
                b == SkipSpace(t, a + 1)
            IN  /\ WordBoundary(t, i)
                /\ \A k \in 0..(n - 1) : DigitAt(t, i + k)
                /\ a <= Len(t) /\ t[a] = "h"
                /\ DigitAt(t, b) /\ DigitAt(t, b + 1)
                /\ WordBoundary(t, b + 2)
        res(n) ==
            LET a == SkipSpace(t, i + n)
                b == SkipSpace(t, a + 1)
            IN  [len |-> b + 2 - i, g1 |-> SubSeq(t, i, i + n - 1),
                 g2 |-> SubSeq(t, b, b + 1)]
    IN  IF try(2) THEN res(2) ELSE IF try(1) THEN res(1) ELSE NoMatch

\* re.sub(pattern, r"\1:\2", t) for the two patterns above: the text up to the
\* leftmost match, the replacement, and the same for the text after the match.
RECURSIVE DashTimeSub(_, _)
DashTimeSub(t, i) ==
    LET sub(ms) ==
            IF DOMAIN ms = {} THEN Slice(t, i, Len(t))
            ELSE LET at(n, m) ==
                         Slice(t, i, n - 1) \o m.g1 \o <<":">> \o m.g2
                         \o DashTimeSub(t, n + m.len)
                 IN  at(Min(DOMAIN ms), ms[Min(DOMAIN ms)])
    IN  sub(Matches([k \in i..Len(t) |-> DashTimeAt(t, k)]))

RECURSIVE HTimeSub(_, _)
HTimeSub(t, i) ==
    LET sub(ms) ==
            IF DOMAIN ms = {} THEN Slice(t, i, Len(t))
            ELSE LET at(n, m) ==
                         Slice(t, i, n - 1) \o m.g1 \o <<":">> \o m.g2
                         \o HTimeSub(t, n + m.len)
                 IN  at(Min(DOMAIN ms), ms[Min(DOMAIN ms)])
    IN  sub(Matches([k \in i..Len(t) |-> HTimeAt(t, k)]))

_normalize_text(t0) ==
    LET t1 == Strip(t0)
        t2 == _normalize_russian_word_time(t1)
        t3 == DashTimeSub(t2, 1)
    IN  HTimeSub(t3, 1)

----------------------------------------------------------------------------
(* Optional values.  A text function that returns None returns NoneText,   *)
(* a sequence that is no text (its element is not a character).            *)

NoneText == <<"None">>

\* str.find: the first position of w in t, 0 if there is none.
Find(t, w) ==
    LET ps == {i \in 1..Len(t) : LitAt(t, i, w)}
    IN  IF ps = {} THEN 0 ELSE Min(ps)

\* Python's integers are unbounded; the model's saturate at IntCap, which is
\* above every number the code compares an integer with.
IntCap == 10000

\* int(s) for a string of digits of any length.
RECURSIVE IntOfDigits(_)
IntOfDigits(s) ==
    IF Len(s) = 0 THEN 0
    ELSE LET v == IntOfDigits(SubSeq(s, 1, Len(s) - 1)) * 10 + DigitVal(s[Len(s)])
         IN  IF v > IntCap THEN IntCap ELSE v

\* "".join(ch for ch in s if ch.isdigit())
DigitsOf(s) == SelectSeq(s, IsDigit)

\* s.split()[-1]: the last whitespace-delimited word of s, <<>> if s has none.
LastWord(s) ==
    LET r == RStrip(s)
        starts == {i \in 1..Len(r) : \A k \in i..Len(r) : ~IsSpace(r[k])}
    IN  IF Len(r) = 0 THEN <<>>
        ELSE SubSeq(r, CHOOSE i \in starts : \A j \in starts : i <= j, Len(r))

----------------------------------------------------------------------------
(* _extract_first_time, bot.py 121-129                                     *)

\* \b(\d{1,2}):(\d{2})\b at position i: [len, g1, g2] or NoMatch.
ClockAt(t, i) ==
    LET try(n) ==
            /\ WordBoundary(t, i)
            /\ \A k \in 0..(n - 1) : DigitAt(t, i + k)
            /\ i + n <= Len(t) /\ t[i + n] = ":"
            /\ DigitAt(t, i + n + 1) /\ DigitAt(t, i + n + 2)
            /\ WordBoundary(t, i + n + 3)
        res(n) == [len |-> n + 3, g1 |-> SubSeq(t, i, i + n - 1),
                   g2 |-> SubSeq(t, i + n + 1, i + n + 2)]
    IN  IF try(2) THEN res(2) ELSE IF try(1) THEN res(1) ELSE NoMatch

\* re.search: the leftmost match of the pattern, NoMatch if there is none.
FirstClock(t) ==
    LET first(ms) == IF DOMAIN ms = {} THEN NoMatch ELSE ms[Min(DOMAIN ms)]
    IN  first(Matches([i \in 1..Len(t) |-> ClockAt(t, i)]))

_extract_first_time(t) ==
    LET checked(m) ==
            IF m.len = 0 THEN NoneText
            ELSE LET range(hh, mm) ==
                         IF 0 <= hh /\ hh <= 23 /\ 0 <= mm /\ mm <= 59
                         THEN Fmt2(hh) \o <<":">> \o Fmt2(mm)
                         ELSE NoneText
                 IN  range(IntOf(m.g1), IntOf(m.g2))
    IN  checked(FirstClock(t))

----------------------------------------------------------------------------
(* _extract_time_range, bot.py 109-118                                     *)

W_do == <<"cd", "co">>                                                \* до
W_to == <<"t", "o">>

\* (\d{1,2}:\d{2}) at position i, without the word boundaries: its length or 0.
BareClockLen(t, i) ==
    LET try(n) ==
            /\ \A k \in 0..(n - 1) : DigitAt(t, i + k)
            /\ i + n <= Len(t) /\ t[i + n] = ":"
            /\ DigitAt(t, i + n + 1) /\ DigitAt(t, i + n + 2)
    IN  IF try(2) THEN 5 ELSE IF try(1) THEN 4 ELSE 0

\* (?:до|\-|en dash|em dash|to) at position i: its length or 0.
RangeSepLen(t, i) ==
    IF LitAt(t, i, W_do) THEN 2
    ELSE IF i <= Len(t) /\ t[i] \in {"-", "u2013", "u2014"} THEN 1
    ELSE IF LitAt(t, i, W_to) THEN 2
    ELSE 0

\* (\d{1,2}:\d{2})\s*(?:sep)\s*(\d{1,2}:\d{2})\b from position i.
RangeFrom(t, i) ==
    LET second(n1, b) ==
            LET end(n2) ==
                    IF n2 > 0 /\ WordBoundary(t, b + n2)
                    THEN [len |-> b + n2 - i, g1 |-> SubSeq(t, i, i + n1 - 1),
                          g2 |-> SubSeq(t, b, b + n2 - 1)]
                    ELSE NoMatch
            IN  end(BareClockLen(t, b))
        sep(n1, a) ==
            LET after(ns) == IF ns > 0 THEN second(n1, SkipSpace(t, a + ns)) ELSE NoMatch
            IN  after(RangeSepLen(t, a))
        first(n1) == IF n1 > 0 THEN sep(n1, SkipSpace(t, i + n1)) ELSE NoMatch
    IN  first(BareClockLen(t, i))

\* The whole pattern at position i, the optional (?:в\s*)? tried first.
RangeAt(t, i) ==
    IF ~WordBoundary(t, i) THEN NoMatch
    ELSE FirstMatch(<<IF LitAt(t, i, W_v)
                      THEN RangeFrom(t, SkipSpace(t, i + 1))
                      ELSE NoMatch,
                      RangeFrom(t, i)>>)

\* (start, end) as a pair of texts, or (None, None).
_extract_time_range(t) ==
    LET first(ms) ==
            IF DOMAIN ms = {} THEN <<NoneText, NoneText>>
            ELSE <<ms[Min(DOMAIN ms)].g1, ms[Min(DOMAIN ms)].g2>>
    IN  first(Matches([i \in 1..Len(t) |-> RangeAt(t, i)]))

----------------------------------------------------------------------------
(* _fallback_duration_minutes, bot.py 321-343                              *)

W_minut   == <<" ", "cm", "ci", "cn", "cu", "ct">>                    \* " минут"
W_min     == <<" ", "cm", "ci", "cn">>                                \* " мин"
W_lmin    == <<"m", "i", "n">>
W_minutes == <<"m", "i", "n", "u", "t", "e", "s">>
W_schas   == <<" ">> \o W_chas                                        \* " час"
W_schasa  == <<" ">> \o W_chas \o W_a                                 \* " часа"
W_schasov == <<" ">> \o W_chas \o W_ov                                \* " часов"
W_hour    == <<"h", "o", "u", "r">>
W_hours   == <<"h", "o", "u", "r", "s">>

MinuteTokens == <<W_minut, W_min, W_lmin, W_minutes>>
HourTokens   == <<W_schas, W_schasa, W_schasov, W_hour, W_hours>>

MinMinutes == 5
MaxMinutes == 1440
MinHours == 1
MaxHours == 24
DefaultDuration == 60

\* The number in front of the first occurrence of token, -1 where the code's
\* try block raises (no word in front of the token, or no digit in that word).
NumberBefore(lowered, token) ==
    LET number(ds) == IF Len(ds) = 0 THEN -1 ELSE IntOfDigits(ds)
    IN  number(DigitsOf(LastWord(SubSeq(lowered, 1, Find(lowered, token) - 1))))

\* One pass of a for loop: 0 when no token of the list returns from the function.
RECURSIVE DurationLoop(_, _, _, _, _, _)
DurationLoop(lowered, tokens, k, lo, hi, mult) ==
    IF k > Len(tokens) THEN 0
    ELSE LET check(num) ==
                 IF lo <= num /\ num <= hi
                 THEN num * mult
                 ELSE DurationLoop(lowered, tokens, k + 1, lo, hi, mult)
         IN  check(IF Find(lowered, tokens[k]) > 0
                   THEN NumberBefore(lowered, tokens[k])
                   ELSE -1)

_fallback_duration_minutes(t) ==
    LET pick(viaMin, viaHour) ==
            IF viaMin > 0 THEN viaMin
            ELSE IF viaHour > 0 THEN viaHour
            ELSE DefaultDuration
    IN  pick(DurationLoop(t, MinuteTokens, 1, MinMinutes, MaxMinutes, 1),
             DurationLoop(t, HourTokens, 1, MinHours, MaxHours, 60))

----------------------------------------------------------------------------
(* _extract_explicit_fields, bot.py 255-318                                *)

\* text.splitlines(): the pieces between line breaks.
RECURSIVE SplitLines(_)
SplitLines(t) ==
    LET n == Find(t, <<"\n">>)
    IN  IF Len(t) = 0 THEN <<>>
        ELSE IF n = 0 THEN <<t>>
        ELSE <<SubSeq(t, 1, n - 1)>> \o SplitLines(SubSeq(t, n + 1, Len(t)))

\* [ln.strip() for ln in text.splitlines() if ln.strip()]
RECURSIVE StrippedLines(_)
StrippedLines(ls) ==
    IF Len(ls) = 0 THEN <<>>
    ELSE (IF Len(Strip(ls[1])) > 0 THEN <<Strip(ls[1])>> ELSE <<>>)
         \o StrippedLines(Tail(ls))

W_titul         == <<"ct", "ci", "ct", "cu", "cl">>                             \* титул
W_zagolovok     == <<"cz", "ca", "cg", "co", "cl", "co", "cv", "co", "ck">>     \* заголовок
W_title         == <<"t", "i", "t", "l", "e">>
W_eto           == <<"cee", "ct", "co">>                                        \* это
W_data          == <<"cd", "ca", "ct", "ca">>                                   \* дата
W_date          == <<"d", "a", "t", "e">>
W_vremya        == <<"cv", "cr", "ce", "cm", "cya">>                            \* время
W_time          == <<"t", "i", "m", "e">>
W_konec         == <<"ck", "co", "cn", "ce", "cc">>                             \* конец
W_okonchanie    == <<"co", "ck", "co", "cn", "cch", "ca", "cn", "ci", "ce">>    \* окончание
W_end           == <<"e", "n", "d">>
W_protyazh      == <<"cp", "cr", "co", "ct", "cya", "czh", "ce", "cn", "cn", "co", "cs", "ct", "c'">>  \* протяженность
W_dlitelnost    == <<"cd", "cl", "ci", "ct", "ce", "cl", "c'", "cn", "co", "cs", "ct", "c'">>          \* длительность
W_duration      == <<"d", "u", "r", "a", "t", "i", "o", "n">>
W_zametki       == <<"cz", "ca", "cm", "ce", "ct", "ck", "ci">>                 \* заметки
W_opisanie      == <<"co", "cp", "ci", "cs", "ca", "cn", "ci", "ce">>           \* описание
W_dokumenty     == <<"cd", "co", "ck", "cu", "cm", "ce", "cn", "ct", "cy">>     \* документы
W_notes         == <<"n", "o", "t", "e", "s">>

\* The labels of each key of `patterns`, in the order of the alternations.
FieldLabels ==
    [title    |-> <<W_titul, W_zagolovok, W_title>>,
     date     |-> <<W_data, W_date>>,
     time     |-> <<W_vremya, W_time>>,
     end      |-> <<W_konec, W_okonchanie, W_end>>,
     duration |-> <<W_protyazh, W_dlitelnost, W_duration>>,
     notes    |-> <<W_zametki, W_opisanie, W_dokumenty, W_notes>>]

FieldKeys == {"title", "date", "time", "end", "duration", "notes"}

\* [-em dash:=]
IsFieldSep(c) == c \in {"-", "u2014", ":", "="}

RECURSIVE SkipFieldSeps(_, _)
SkipFieldSeps(ln, i) ==
    IF i <= Len(ln) /\ IsFieldSep(ln[i]) THEN SkipFieldSeps(ln, i + 1) ELSE i

\* \s*[-em dash:=]+\s*(.+)$ tried at position i of a stripped line:
\* [ok, value], value being group 1.
FieldValueAt(ln, i) ==
    LET a == SkipSpace(ln, i)
        b == SkipFieldSeps(ln, a)
        v == SkipSpace(ln, b)
    IN  IF b = a THEN [ok |-> FALSE]
        ELSE IF v <= Len(ln) THEN [ok |-> TRUE, value |-> SubSeq(ln, v, Len(ln))]
        \* nothing left for (.+): \s* and then the separators give a character back
        ELSE IF v > b THEN [ok |-> TRUE, value |-> SubSeq(ln, Len(ln), Len(ln))]
        ELSE IF b - a >= 2 THEN [ok |-> TRUE, value |-> SubSeq(ln, Len(ln), Len(ln))]
        ELSE [ok |-> FALSE]

\* The label of a key at the start of the line: the position after it, 0 if none.
LabelEnd(ln, key) ==
    LET end(ls) ==
            LET first(ks) == IF ks = {} THEN 0 ELSE Len(ls[Min(ks)]) + 1
            IN  first({k \in 1..Len(ls) : LitAt(ln, 1, ls[k])})
    IN  end(FieldLabels[key])

NoField == [ok |-> FALSE]

\* The first alternative of the part between the label and the separators
\* after which the rest of the pattern matches.
FirstField(alternatives) ==
    LET ks == {k \in DOMAIN alternatives : alternatives[k].ok}
    IN  IF ks = {} THEN NoField ELSE alternatives[Min(ks)]

\* title: \s*(?:это)?\s* before the separators
TitleFieldAt(ln, e) ==
    LET eto(a) == IF LitAt(ln, a, W_eto) THEN FieldValueAt(ln, a + Len(W_eto)) ELSE NoField
    IN  FirstField(<<eto(SkipSpace(ln, e)), FieldValueAt(ln, e)>>)

\* duration: \s*(?:\(.*\))? before the separators: the group runs to the last ")"
\* after which the rest of the pattern matches
DurationFieldAt(ln, e) ==
    LET paren(a) ==
            LET last(closes) ==
                    IF DOMAIN closes = {} THEN NoField
                    ELSE closes[CHOOSE c \in DOMAIN closes : \A d \in DOMAIN closes : d <= c]
                ok(all) == [c \in {d \in DOMAIN all : all[d].ok} |-> all[c]]
            IN  last(ok([c \in {d \in (a + 1)..Len(ln) :
                                   a <= Len(ln) /\ ln[a] = "(" /\ ln[d] = ")"} |->
                            FieldValueAt(ln, c + 1)]))
    IN  FirstField(<<paren(SkipSpace(ln, e)), FieldValueAt(ln, e)>>)

\* rx.match(ln) for the pattern of a key: [ok, value].
FieldMatch(ln, key) ==
    LET after(e) ==
            IF e = 0 THEN NoField
            ELSE IF key = "title" THEN TitleFieldAt(ln, e)
            ELSE IF key = "duration" THEN DurationFieldAt(ln, e)
            ELSE FieldValueAt(ln, e)
    IN  after(LabelEnd(ln, key))

\* out[key] after the loop over the lines: the value of the last line that
\* matches the key's pattern, stripped; NoField when no line matches.
RECURSIVE LastFieldValue(_, _, _)
LastFieldValue(lines, key, k) ==
    IF k = 0 THEN NoField
    ELSE LET pick(m) ==
                 IF m.ok THEN [ok |-> TRUE, value |-> Strip(m.value)]
                 ELSE LastFieldValue(lines, key, k - 1)
         IN  pick(FieldMatch(lines[k], key))

\* (out.get(key) or "").strip()
FieldText(out, key) == IF out[key].ok THEN Strip(out[key].value) ELSE <<>>

\* re.search(r"(\d+)", s): the first run of digits of s, <<>> if s has no digit.
FirstDigitRun(s) ==
    LET ds == {i \in 1..Len(s) : IsDigit(s[i])}
        from(a) == SubSeq(s, a, Min({e \in a..Len(s) : e = Len(s) \/ ~IsDigit(s[e + 1])}))
    IN  IF ds = {} THEN <<>> ELSE from(Min(ds))

W_h == <<"h">>

\* re.search(r"\b(час|часа|часов|h|hour)\b", s)
HasHourUnit(s) ==
    \E i \in 1..Len(s) :
        /\ WordBoundary(s, i)
        /\ \E w \in {W_chas, W_chas \o W_a, W_chas \o W_ov, W_h, W_hour} :
              LitAt(s, i, w) /\ WordBoundary(s, i + Len(w))

MinutesPerHour == 60

\* duration_minutes, bot.py 289-297; 0 stands for None (both are falsy at 313).
ExplicitDuration(duration_raw) ==
    LET minutes(ds) ==
            IF Len(duration_raw) = 0 \/ Len(ds) = 0 THEN 0
            ELSE IF HasHourUnit(duration_raw) THEN IntOfDigits(ds) * MinutesPerHour
            ELSE IntOfDigits(ds)
    IN  minutes(FirstDigitRun(duration_raw))

NoExplicit == [found |-> FALSE]

_extract_explicit_fields(t) ==
    LET fields(lines, out) ==
            LET compose(title_s, date_s, time_s, end_s, duration_minutes, notes_s) ==
                    LET start_datetime ==
                            IF Len(date_s) > 0 /\ Len(time_s) > 0
                            THEN date_s \o <<" ">> \o time_s
                            ELSE IF Len(date_s) > 0 THEN date_s
                            ELSE <<>>
                        end_datetime ==
                            IF Len(date_s) > 0 /\ Len(end_s) > 0
                            THEN date_s \o <<" ">> \o end_s
                            ELSE <<>>
                    IN  IF Len(title_s) = 0 /\ Len(start_datetime) = 0 THEN NoExplicit
                        ELSE [found |-> TRUE,
                              title |-> title_s,
                              start_datetime |-> start_datetime,
                              end_datetime |-> end_datetime,
                              duration_minutes |-> IF duration_minutes = 0
                                                   THEN DefaultDuration
                                                   ELSE duration_minutes,
                              notes |-> notes_s]
            IN  IF Len(lines) < 2 THEN NoExplicit
                ELSE IF \A key \in FieldKeys : ~out[key].ok THEN NoExplicit
                ELSE compose(FieldText(out, "title"), FieldText(out, "date"),
                             FieldText(out, "time"), FieldText(out, "end"),
                             ExplicitDuration(FieldText(out, "duration")),
                             FieldText(out, "notes"))
        scan(lines) ==
            fields(lines, [key \in FieldKeys |-> LastFieldValue(lines, key, Len(lines))])
    IN  scan(StrippedLines(SplitLines(t)))

----------------------------------------------------------------------------
(* Words and fixed titles of the title and notes guessers, bot.py 160-252  *)

W_est           == <<"ce", "cs", "ct", "c'">>  \* есть
W_budet         == <<"cb", "cu", "cd", "ce", "ct">>  \* будет
W_nuzhno        == <<"cn", "cu", "czh", "cn", "co">>  \* нужно
W_nado          == <<"cn", "ca", "cd", "co">>  \* надо
W_hochu         == <<"ckh", "co", "cch", "cu">>  \* хочу
W_u             == <<"cu">>  \* у
W_menya         == <<"cm", "ce", "cn", "cya">>  \* меня
W_nas           == <<"cn", "ca", "cs">>  \* нас
W_k             == <<"ck">>  \* к
W_zubnomu       == <<"cz", "cu", "cb", "cn", "co", "cm", "cu">>  \* зубному
W_stomatologu   == <<"cs", "ct", "co", "cm", "ca", "ct", "co", "cl", "co", "cg", "cu">>  \* стоматологу
W_stomatolog    == <<"cs", "ct", "co", "cm", "ca", "ct", "co", "cl", "co", "cg">>  \* стоматолог
W_vrachu        == <<"cv", "cr", "ca", "cch", "cu">>  \* врачу
W_priem         == <<"cp", "cr", "ci", "ce", "cm">>  \* прием
W_prim          == <<"cp", "cr", "ci", "cm">>  \* прим
W_vracha        == <<"cv", "cr", "ca", "cch", "ca">>  \* врача
W_vrach         == <<"cv", "cr", "ca", "cch">>  \* врач
W_nalogovuyu    == <<"cn", "ca", "cl", "co", "cg", "co", "cv", "cu", "cyu">>  \* налоговую
W_nalogovaya    == <<"cn", "ca", "cl", "co", "cg", "co", "cv", "ca", "cya">>  \* налоговая
W_inspekciya    == <<"ci", "cn", "cs", "cp", "ce", "ck", "cc", "ci", "cya">>  \* инспекция
W_ifns          == <<"ci", "cf", "cn", "cs">>  \* ифнс
W_zapishi       == <<"cz", "ca", "cp", "ci", "csh", "ci">>  \* запиши
W_zapishite     == <<"cz", "ca", "cp", "ci", "csh", "ci", "ct", "ce">>  \* запишите
W_zaplaniruj    == <<"cz", "ca", "cp", "cl", "ca", "cn", "ci", "cr", "cu", "cj">>  \* запланируй
W_dobav         == <<"cd", "co", "cb", "ca", "cv", "c'">>  \* добавь
W_postav        == <<"cp", "co", "cs", "ct", "ca", "cv", "c'">>  \* поставь
W_naznach       == <<"cn", "ca", "cz", "cn", "ca", "cch", "c'">>  \* назначь
W_na            == <<"cn", "ca">>  \* на
W_dokument      == <<"cd", "co", "ck", "cu", "cm", "ce", "cn", "ct">>  \* документ
W_vzyat         == <<"cv", "cz", "cya", "ct", "c'">>  \* взять
W_prinesti      == <<"cp", "cr", "ci", "cn", "ce", "cs", "ct", "ci">>  \* принести
W_ne_zabyt      == <<"cn", "ce", " ", "cz", "ca", "cb", "cy", "ct", "c'">>  \* не забыть
W_ochered       == <<"co", "cch", "ce", "cr", "ce", "cd", "c'">>  \* очередь
W_pasport       == <<"cp", "ca", "cs", "cp", "co", "cr", "ct">>  \* паспорт
T_ZubnojVrach   == <<"Cz", "cu", "cb", "cn", "co", "cj", " ", "cv", "cr", "ca", "cch">>  \* Зубной врач
T_PriemUVracha  == <<"Cp", "cr", "ci", "cyo", "cm", " ", "cu", " ", "cv", "cr", "ca", "cch", "ca">>  \* Приём у врача
T_Nalogovaya    == <<"Cn", "ca", "cl", "co", "cg", "co", "cv", "ca", "cya">>  \* Налоговая
T_Vstrecha      == <<"Cv", "cs", "ct", "cr", "ce", "cch", "ca">>  \* Встреча

\* Lower-case letters of the model with their upper-case forms ("Cv" is В).
LowerUpper ==
    <<<<"cv", "Cv">>, <<"ce", "Ce">>, <<"cch", "Cch">>, <<"cr", "Cr">>, <<"ca", "Ca">>,
      <<"cs", "Cs">>, <<"co", "Co">>, <<"cu", "Cu">>, <<"ct", "Ct">>, <<"cd", "Cd">>,
      <<"cn", "Cn">>, <<"cya", "Cya">>, <<"ci", "Ci">>, <<"cl", "Cl">>, <<"c'", "C'">>,
      <<"cy", "Cy">>, <<"cp", "Cp">>, <<"csh", "Csh">>, <<"cm", "Cm">>, <<"cc", "Cc">>,
      <<"ck", "Ck">>, <<"cz", "Cz">>, <<"cb", "Cb">>, <<"cg", "Cg">>, <<"cj", "Cj">>,
      <<"czh", "Czh">>, <<"ckh", "Ckh">>, <<"cf", "Cf">>, <<"cee", "Cee">>, <<"cyu", "Cyu">>,
      <<"cshch", "Cshch">>, <<"chard", "Chard">>, <<"cyo", "Cyo">>, <<"a", "A">>, <<"b", "B">>,
      <<"c", "C">>, <<"d", "D">>, <<"e", "E">>, <<"f", "F">>, <<"g", "G">>,
      <<"h", "H">>, <<"i", "I">>, <<"j", "J">>, <<"k", "K">>, <<"l", "L">>,
      <<"m", "M">>, <<"n", "N">>, <<"o", "O">>, <<"p", "P">>, <<"q", "Q">>,
      <<"r", "R">>, <<"s", "S">>, <<"t", "T">>, <<"u", "U">>, <<"v", "V">>,
      <<"w", "W">>, <<"x", "X">>, <<"y", "Y">>, <<"z", "Z">>>>

\* ch.upper()
Upper(c) ==
    IF \E k \in 1..Len(LowerUpper) : LowerUpper[k][1] = c
    THEN LowerUpper[CHOOSE k \in 1..Len(LowerUpper) : LowerUpper[k][1] = c][2]
    ELSE c

\* str.capitalize(): the first character upper-cased (the rest lower-cased, which
\* the texts of the model, having no upper-case letter, already are).
Capitalize(t) == IF Len(t) = 0 THEN t ELSE <<Upper(t[1])>> \o Tail(t)

\* t[:n]
Truncate(t, n) == IF Len(t) <= n THEN t ELSE SubSeq(t, 1, n)

\* str.strip(" -em dash:;,.\t\n")
IsTrim(c) == c \in {" ", "-", "u2014", ":", ";", ",", ".", "\t", "\n"}

RECURSIVE LTrim(_)
LTrim(t) == IF Len(t) > 0 /\ IsTrim(t[1]) THEN LTrim(Tail(t)) ELSE t

RECURSIVE RTrim(_)
RTrim(t) ==
    IF Len(t) > 0 /\ IsTrim(t[Len(t)]) THEN RTrim(SubSeq(t, 1, Len(t) - 1)) ELSE t

Trim(t) == RTrim(LTrim(t))

\* w1\s+w2\s+...\s+wn at position i: the position after the match, 0 if none.
RECURSIVE PhraseEnd(_, _, _)
PhraseEnd(t, i, phrase) ==
    IF ~LitAt(t, i, phrase[1]) THEN 0
    ELSE LET e == i + Len(phrase[1])
         IN  IF Len(phrase) = 1 THEN e
             ELSE IF e <= Len(t) /\ IsSpace(t[e])
                  THEN PhraseEnd(t, SkipSpace(t, e), Tail(phrase))
                  ELSE 0

\* re.search(r"\b(p1|p2|...)\b", t)
SearchPhrases(t, phrases) ==
    \E i \in 1..Len(t) :
        /\ WordBoundary(t, i)
        /\ \E p \in phrases :
              PhraseEnd(t, i, p) > 0 /\ WordBoundary(t, PhraseEnd(t, i, p))

\* ^\s*(p1|p2|...)\b tried on t: the position after the first alternative (in
\* the order of the sequence) that matches, 0 if none does.
PrefixEnd(t, phrases) ==
    LET a  == SkipSpace(t, 1)
        ks == {k \in 1..Len(phrases) :
                  PhraseEnd(t, a, phrases[k]) > 0
                  /\ WordBoundary(t, PhraseEnd(t, a, phrases[k]))}
    IN  IF ks = {} THEN 0
        ELSE PhraseEnd(t, a, phrases[CHOOSE k \in ks : \A j \in ks : k <= j])

\* (есть|будет|нужно|надо|хочу|у\s+меня|у\s+нас)
FillerPhrases ==
    <<<<W_est>>, <<W_budet>>, <<W_nuzhno>>, <<W_nado>>, <<W_hochu>>,
      <<W_u, W_menya>>, <<W_u, W_nas>>>>

RECURSIVE SkipColonDash(_, _)
SkipColonDash(t, i) ==
    IF i <= Len(t) /\ t[i] \in {":", "-", "u2014"} THEN SkipColonDash(t, i + 1) ELSE i

\* re.sub(r"^\s*(есть|...|у\s+нас)\b\s*[:\-em dash]*\s*", "", t), bot.py 164-169, 224-229
StripFiller(t) ==
    LET e == PrefixEnd(t, FillerPhrases)
    IN  IF e = 0 THEN t
        ELSE SubSeq(t, SkipSpace(t, SkipColonDash(t, SkipSpace(t, e))), Len(t))

\* (запиши(те)?\s+меня|запланируй|добавь|поставь|назначь)
ImperativePhrases ==
    <<<<W_zapishite, W_menya>>, <<W_zapishi, W_menya>>, <<W_zaplaniruj>>,
      <<W_dobav>>, <<W_postav>>, <<W_naznach>>>>

\* re.sub(r"^\s*(запиши(те)?\s+меня|...)\b\s*", "", t), bot.py 181-186
StripImperative(t) ==
    LET e == PrefixEnd(t, ImperativePhrases)
    IN  IF e = 0 THEN t ELSE SubSeq(t, SkipSpace(t, e), Len(t))

\* .*$ from position k: no line break from k on, except one that ends the text.
RestOfLine(t, k) == \A n \in k..Len(t) : t[n] = "\n" => n = Len(t)

\* What re.sub(pattern + ".*$", "", t) leaves, the leftmost match starting at i.
CutAt(t, i) ==
    IF t[Len(t)] = "\n" THEN SubSeq(t, 1, i - 1) \o <<"\n">> ELSE SubSeq(t, 1, i - 1)

CutLeftmost(t, starts) ==
    IF starts = {} THEN t ELSE CutAt(t, CHOOSE i \in starts : \A j \in starts : i <= j)

\* re.sub(r"\s+на\s+\S+.*$", "", t), bot.py 187
CutAfterNa(t) ==
    CutLeftmost(t, {i \in 1..Len(t) :
        /\ IsSpace(t[i])
        /\ LET j == SkipSpace(t, i)
               k == SkipSpace(t, j + Len(W_na))
           IN  /\ LitAt(t, j, W_na)
               /\ k > j + Len(W_na)
               /\ k <= Len(t)
               /\ RestOfLine(t, k)})

\* re.sub(r"\s+в\s+\d{1,2}:\d{2}.*$", "", t), bot.py 188, 249
CutAfterVClock(t) ==
    CutLeftmost(t, {i \in 1..Len(t) :
        /\ IsSpace(t[i])
        /\ LET j == SkipSpace(t, i)
               k == SkipSpace(t, j + 1)
           IN  /\ LitAt(t, j, W_v)
               /\ k > j + 1
               /\ BareClockLen(t, k) > 0
               /\ RestOfLine(t, k)})

\* re.sub(r"\s+\d{1,2}:\d{2}.*$", "", t), bot.py 248
CutAfterClock(t) ==
    CutLeftmost(t, {i \in 1..Len(t) :
        /\ IsSpace(t[i])
        /\ LET j == SkipSpace(t, i)
           IN  BareClockLen(t, j) > 0 /\ RestOfLine(t, j)})

\* [а-яA-Za-z] under IGNORECASE
IsRangeLetter(c) == IsWord(c) /\ ~IsDigit(c) /\ c \notin {"_", "cyo", "Cyo"}

\* [а-яA-Za-z]+ from position i: the first position >= i that holds no letter.
SkipLetters(t, i) ==
    Min({k \in i..Len(t) : ~IsRangeLetter(t[k])} \cup {Len(t) + 1})

\* re.sub(r"\s+\d{1,2}\s+[а-яA-Za-z]+\s+\d{2,4}.*$", "", t), bot.py 247
CutAfterWordDate(t) ==
    CutLeftmost(t, {i \in 1..Len(t) :
        /\ IsSpace(t[i])
        /\ LET j == SkipSpace(t, i)
               n == IF DigitAt(t, j) /\ DigitAt(t, j + 1) THEN 2 ELSE 1
               k == SkipSpace(t, j + n)
               e == SkipLetters(t, k)
               m == SkipSpace(t, e)
           IN  /\ DigitAt(t, j)
               /\ k > j + n
               /\ e > k
               /\ m > e
               /\ DigitAt(t, m) /\ DigitAt(t, m + 1)
               /\ RestOfLine(t, m)})

TitleLimit == 120
ShortTitleLimit == 80

----------------------------------------------------------------------------
(* _fallback_title, bot.py 160-194                                         *)

_fallback_title(t0) ==
    LET t1 == StripFiller(Strip(t0))
        lowered == t1
        t2 == Trim(CutAfterVClock(CutAfterNa(StripImperative(t1))))
    IN  IF SearchPhrases(lowered, {<<W_k, W_zubnomu>>, <<W_k, W_stomatologu>>, <<W_stomatolog>>})
        THEN T_ZubnojVrach
        ELSE IF SearchPhrases(lowered, {<<W_k, W_vrachu>>, <<W_priem, W_u, W_vracha>>,
                                        <<W_prim, W_u, W_vracha>>, <<W_vrach>>})
        THEN T_PriemUVracha
        ELSE IF SearchPhrases(lowered, {<<W_nalogovuyu>>, <<W_nalogovaya>>,
                                        <<W_nalogovaya, W_inspekciya>>, <<W_ifns>>})
        THEN T_Nalogovaya
        ELSE IF Len(t2) = 0 THEN T_Vstrecha
        ELSE Capitalize(Truncate(t2, TitleLimit))

----------------------------------------------------------------------------
(* _extract_notes_fallback, bot.py 197-219; the cut of _extract_title_fallback *)

NoteMarkers == {W_dokumenty, W_dokument, W_vzyat, W_prinesti, W_ne_zabyt, W_ochered}

\* The earliest position of a marker in the text, 0 if it holds none.
FirstMarker(lowered) ==
    LET ps == {Find(lowered, m) : m \in NoteMarkers} \ {0}
    IN  IF ps = {} THEN 0 ELSE CHOOSE i \in ps : \A j \in ps : i <= j

NotesLimit == 800

_extract_notes_fallback(t0) ==
    LET t == Strip(t0)
        idx == FirstMarker(t)
    IN  IF idx = 0 THEN <<>>
        ELSE Truncate(Trim(SubSeq(t, idx, Len(t))), NotesLimit)

----------------------------------------------------------------------------
(* _extract_title_fallback, bot.py 222-252                                 *)

_extract_title_fallback(t0) ==
    LET t1 == StripFiller(Strip(t0))
        lowered == t1
        cut_idx == FirstMarker(lowered)
        t2 == IF cut_idx = 0 THEN t1 ELSE SubSeq(t1, 1, cut_idx - 1)
        t3 == Trim(CutAfterVClock(CutAfterClock(CutAfterWordDate(t2))))
    IN  IF SearchPhrases(lowered, {<<W_nalogovuyu>>, <<W_nalogovaya>>,
                                   <<W_nalogovaya, W_inspekciya>>, <<W_ifns>>})
        THEN T_Nalogovaya
        ELSE IF SearchPhrases(lowered, {<<W_k, W_zubnomu>>, <<W_k, W_stomatologu>>, <<W_stomatolog>>})
        THEN T_ZubnojVrach
        ELSE IF Len(t3) = 0 THEN T_Vstrecha
        ELSE Capitalize(Truncate(t3, ShortTitleLimit))

----------------------------------------------------------------------------
(* SpecText: texts typed fragment by fragment, then normalized.            *)

MaxFrags == 3

\* The pieces a text is typed from: hours, minutes behind each separator the
\* normalizer rewrites, the words of a spoken time, a second clock time and
\* the cues of a duration.
Fragments ==
    { <<"5">>, <<"1", "2">>, <<"2", "5">>, <<"3">>, <<" ">>,
      <<"-", "3", "0">>, <<".", "3", "0">>, <<":", "3", "0">>,
      <<" ", "h", " ", "3", "0">>,
      <<" ", "1", "2", ":", "3", "0">>,
      W_v \o <<" ">>, W_pyat \o <<" ">> \o W_chas \o W_ov,
      <<" ">> \o W_utra, <<" ">> \o W_dnya,
      <<" ">> \o W_vechera, <<" ">> \o W_nochi,
      W_minut, W_schasa, <<" ", "4", "5">> \o W_minut }

TextInit ==
    /\ text = <<>>
    /\ nfrag = 0
    /\ stage = "typing"
    /\ once = <<>>
    /\ twice = <<>>
    /\ first_time = NoneText
    /\ guessed_minutes = 0

TypeFragment ==
    /\ stage = "typing"
    /\ nfrag < MaxFrags
    /\ \E f \in Fragments : text' = text \o f
    /\ nfrag' = nfrag + 1
    /\ UNCHANGED <<stage, once, twice, first_time, guessed_minutes>>
    /\ UNCHANGED handlerVars
    /\ UNCHANGED callVars

\* normalized = _normalize_text(text), bot.py 434
Normalize ==
    /\ stage = "typing"
    /\ once' = _normalize_text(text)
    /\ stage' = "once"
    /\ UNCHANGED <<text, nfrag, twice, first_time, guessed_minutes>>
    /\ UNCHANGED handlerVars
    /\ UNCHANGED callVars

\* _normalize_text applied to text that is already normalized, bot.py 444-445
NormalizeAgain ==
    /\ stage = "once"
    /\ twice' = _normalize_text(once)
    /\ stage' = "twice"
    /\ UNCHANGED <<text, nfrag, once, first_time, guessed_minutes>>
    /\ UNCHANGED handlerVars
    /\ UNCHANGED callVars

\* The guessers applied to the normalized text: _extract_first_time (bot.py
\* 524) and _fallback_duration_minutes (bot.py 492).
Guess ==
    /\ stage = "once"
    /\ first_time' = _extract_first_time(once)
    /\ guessed_minutes' = _fallback_duration_minutes(once)
    /\ stage' = "guessed"
    /\ UNCHANGED <<text, nfrag, once, twice>>
    /\ UNCHANGED handlerVars
    /\ UNCHANGED callVars

TextNext == TypeFragment \/ Normalize \/ NormalizeAgain \/ Guess

----------------------------------------------------------------------------
(* Datetimes.  A datetime is a day number, a wall-clock hour and minute,   *)
(* and a zone: "naive" (tzinfo is None), "cfg" (ZoneInfo(cfg.tz)) or       *)
(* "other" (an offset that is OtherOffset minutes ahead of cfg.tz, as the  *)
(* +03:00 the prompt of bot.py 368 asks for is ahead of Europe/Kyiv).      *)

MinutesPerDay == 1440
OtherOffset == 60

NoDt == [some |-> FALSE]

Dt(d, h, m, z) == [some |-> TRUE, day |-> d, hour |-> h, minute |-> m, tz |-> z]

IsNaive(x) == x.tz = "naive"

\* Minutes on the time line; for a naive datetime, its wall-clock minutes.
Instant(x) ==
    x.day * MinutesPerDay + x.hour * MinutesPerHour + x.minute
    - (IF x.tz = "other" THEN OtherOffset ELSE 0)

\* Python refuses to subtract or order a naive and an aware datetime (TypeError).
Comparable(x, y) == IsNaive(x) = IsNaive(y)

\* x + dt.timedelta(minutes=n)
AddMinutes(x, n) ==
    LET total == x.day * MinutesPerDay + x.hour * MinutesPerHour + x.minute + n
        inDay == total % MinutesPerDay
    IN  Dt((total - inDay) \div MinutesPerDay, inDay \div MinutesPerHour,
           inDay % MinutesPerHour, x.tz)

\* x.replace(tzinfo=ZoneInfo(cfg.tz))
WithCfgTz(x) == Dt(x.day, x.hour, x.minute, "cfg")

\* dt.datetime.now(ZoneInfo(cfg.tz)), bot.py 526: the runs of the model all
\* happen at noon of day 0.
NowDt == Dt(0, 12, 0, "cfg")

----------------------------------------------------------------------------
(* _combine_date_and_time, bot.py 132-141                                  *)

AllDigits(s) == Len(s) > 0 /\ \A k \in 1..Len(s) : IsDigit(s[k])

_combine_date_and_time(base, time_str) ==
    LET c  == Find(time_str, <<":">>)
        hh == SubSeq(time_str, 1, c - 1)
        mm == SubSeq(time_str, c + 1, Len(time_str))
    IN  IF c = 0 \/ Find(mm, <<":">>) > 0 \/ ~AllDigits(hh) \/ ~AllDigits(mm)
        THEN NoDt
        ELSE Dt(base.day, IntOfDigits(hh), IntOfDigits(mm),
                IF IsNaive(base) THEN "cfg" ELSE base.tz)

----------------------------------------------------------------------------
(* The collaborators' answers.                                             *)

\* The times of day dateparser gives a date whose text states no clock time.
ParsedDts == {Dt(1, 14, 0, "cfg"), Dt(1, 15, 30, "cfg")}

\* _parse_start_datetime_fallback(query, cfg.tz), bot.py 144-157: dateparser
\* is asked for timezone-aware results in cfg.tz.  It finds no date; or it
\* answers the current moment (it "may default to 'now' time", bot.py 522-527);
\* or a later day, at the clock time the query states or, when the query
\* states none, at a time of its own.
ParserResults(query) ==
    LET later(clock) ==
            IF clock = NoneText THEN ParsedDts
            ELSE {_combine_date_and_time(Dt(1, 0, 0, "cfg"), clock)}
    IN  {NoDt, NowDt} \cup later(_extract_first_time(query))

\* JSON values of the generative service's answer.  "iso" is a string that
\* dt.datetime.fromisoformat accepts, carried as the datetime it denotes.
JNull == [t |-> "null"]
JStr(v) == [t |-> "str", v |-> v]
JInt(n) == [t |-> "int", v |-> n]
JIso(d) == [t |-> "iso", v |-> d]

\* bool(x) is False
Falsy(j) ==
    \/ j.t = "null"
    \/ j.t = "str" /\ Len(j.v) = 0
    \/ j.t = "int" /\ j.v = 0

\* Врач
T_Vrach == <<"Cv", "cr", "ca", "cch">>

Repeat(c, n) == [k \in 1..n |-> c]

PrimaryTitleLimit == 60

PrimaryTitles ==
    {JNull, JStr(T_Vrach), JStr(W_pasport), JStr(Repeat("a", PrimaryTitleLimit + 1)),
     JInt(7)}

PrimaryDurations == {JNull, JInt(45), JInt(-30), JStr(<<"x">>)}

PrimaryStarts ==
    {JNull, JStr(W_est), JIso(Dt(0, 12, 2, "cfg")), JIso(Dt(1, 10, 0, "naive")),
     JIso(Dt(1, 10, 0, "other"))}

PrimaryEnds == {JNull, JIso(Dt(1, 9, 0, "cfg")), JIso(Dt(1, 18, 0, "naive"))}

PrimaryNotes == {JNull, JStr(W_pasport)}

\* data = {} (bot.py 481)
EmptyData ==
    [title |-> JNull, start_datetime |-> JNull, end_datetime |-> JNull,
     duration_minutes |-> JNull, notes |-> JNull]

\* What _openai_extract_event_json does, bot.py 414-427: the call or both
\* json.loads raise; json.loads returns a value that is no object (a list, a
\* number, a string, null); or it returns an object.
PrimaryOutcomes ==
    {[kind |-> "raise"], [kind |-> "nondict"]}
    \cup {[kind |-> "dict", data |-> [title |-> t, start_datetime |-> s, end_datetime |-> e,
                                      duration_minutes |-> d, notes |-> n]] :
             t \in PrimaryTitles, s \in PrimaryStarts, e \in PrimaryEnds,
             d \in PrimaryDurations, n \in PrimaryNotes}

\* CalendarService.get_service, calendar_service.py 53-70: it returns a service,
\* or the token file, the OAuth flow or build() raises.
GetServiceOutcomes == {"service", "raises"}

\* service.events().insert(...).execute(), calendar_service.py 94-98, and
\* created.get("htmlLink"): a link, no link, an HttpError, another exception.
InsertOutcomes == {"link", "nolink", "HttpError", "Exception"}

----------------------------------------------------------------------------
(* The messages: up to MaxLines lines of LinePool joined by line breaks.   *)

\* созвон завтра в 15:30 на 45 минут
L_call ==
    <<"cs", "co", "cz", "cv", "co", "cn", " ", "cz", "ca", "cv", "ct", "cr",
      "ca", " ", "cv", " ", "1", "5", ":", "3", "0", " ", "cn", "ca", " ",
      "4", "5", " ", "cm", "ci", "cn", "cu", "ct">>

\* встреча завтра
L_meet ==
    <<"cv", "cs", "ct", "cr", "ce", "cch", "ca", " ", "cz", "ca", "cv",
      "ct", "cr", "ca">>

\* встреча с 9:00 до 17:30
L_range ==
    <<"cv", "cs", "ct", "cr", "ce", "cch", "ca", " ", "cs", " ", "9", ":",
      "0", "0", " ", "cd", "co", " ", "1", "7", ":", "3", "0">>

\* к врачу в 5 вечера
L_doctor ==
    <<"ck", " ", "cv", "cr", "ca", "cch", "cu", " ", "cv", " ", "5", " ",
      "cv", "ce", "cch", "ce", "cr", "ca">>

\* title - standup 10:00
L_title ==
    <<"t", "i", "t", "l", "e", " ", "-", " ", "s", "t", "a", "n", "d", "u",
      "p", " ", "1", "0", ":", "0", "0">>

\* дата - завтра
L_date ==
    <<"cd", "ca", "ct", "ca", " ", "-", " ", "cz", "ca", "cv", "ct", "cr",
      "ca">>

\* дата - 13.02.2026
L_dotdate ==
    <<"cd", "ca", "ct", "ca", " ", "-", " ", "1", "3", ".", "0", "2", ".",
      "2", "0", "2", "6">>

\* время - 12:00
L_time ==
    <<"cv", "cr", "ce", "cm", "cya", " ", "-", " ", "1", "2", ":", "0",
      "0">>

\* конец - 11:00
L_end ==
    <<"ck", "co", "cn", "ce", "cc", " ", "-", " ", "1", "1", ":", "0", "0">>

\* duration - 2 часа
L_dur ==
    <<"d", "u", "r", "a", "t", "i", "o", "n", " ", "-", " ", "2", " ",
      "cch", "ca", "cs", "ca">>

LongTitleLen == 121

\* title - aaa...a, the title longer than TitleLimit
L_long == <<"t", "i", "t", "l", "e", " ", "-", " ">> \o Repeat("a", LongTitleLen)

LinePool ==
    <<L_call, L_meet, L_range, L_doctor, L_title, L_long, L_date, L_dotdate,
      L_time, L_end, L_dur>>

MaxLines == 2

\* "\n".join(lines) for the lines of the pool at the positions ks, in order.
RECURSIVE JoinLines(_)
JoinLines(ks) ==
    IF ks = {} THEN <<>>
    ELSE LET rest(k) ==
                 IF ks = {k} THEN LinePool[k]
                 ELSE LinePool[k] \o <<"\n">> \o JoinLines(ks \ {k})
         IN  rest(Min(ks))

\* The messages of at most MaxLines lines of the pool, each line at most once
\* and in the order of the pool.
Messages ==
    {JoinLines(ks) : ks \in {q \in SUBSET (DOMAIN LinePool) :
                                  1 <= Cardinality(q) /\ Cardinality(q) <= MaxLines}}

\* What speech.transcribe returns for a voice message, speech_service.py 16-27.
Transcripts == {L_call, L_meet, L_date}

\* What handle_voice meets, bot.py 596-606: get_file or download_to_drive
\* raises; speech.transcribe raises SpeechServiceError; or it returns a text.
VoiceOutcomes ==
    {[kind |-> "download_raises"], [kind |-> "speech_error"]}
    \cup {[kind |-> "text", text |-> m] : m \in Transcripts}

----------------------------------------------------------------------------
(* _handle_text_common, bot.py 430-577: the blend of the primary answer    *)
(* with the guessers, bot.py 483-509.                                      *)

\* ch.lower()
Lower(c) ==
    LET ks == {k \in 1..Len(LowerUpper) : LowerUpper[k][2] = c}
    IN  IF ks = {} THEN c ELSE LowerUpper[CHOOSE k \in ks : TRUE][1]

\* re.IGNORECASE on a text that may hold upper-case letters
LowerText(t) == [k \in 1..Len(t) |-> Lower(t[k])]

\* (data.get(key) or "").strip()
TextOf(j) == IF Falsy(j) THEN <<>> ELSE Strip(j.v)

\* A value on which .strip() raises AttributeError: truthy and no string.
NoStrip(j) == ~Falsy(j) /\ j.t \notin {"str", "iso"}

\* A value on which int() raises ValueError: a string that is no integer.
NoInt(j) == ~Falsy(j) /\ (j.t = "iso" \/ (j.t = "str" /\ ~AllDigits(Strip(j.v))))

\* The exception that leaves lines 483-495 for this data, "none" if none does.
BlendException(data) ==
    IF NoStrip(data.notes) \/ NoStrip(data.title) THEN "AttributeError"
    ELSE IF NoInt(data.duration_minutes) THEN "ValueError"
    ELSE IF NoStrip(data.start_datetime) \/ NoStrip(data.end_datetime) THEN "AttributeError"
    ELSE "none"

\* bot.py 483-485; guess is _extract_notes_fallback(normalized)
BlendNotes(data, guess) ==
    IF Len(TextOf(data.notes)) = 0 THEN guess ELSE TextOf(data.notes)

\* \b(документ|документы|паспорт|очередь)\b
DisallowedTitleWords == {<<W_dokument>>, <<W_dokumenty>>, <<W_pasport>>, <<W_ochered>>}

\* bot.py 487-491; guess is _extract_title_fallback(normalized), lastGuess is
\* _fallback_title(normalized)
BlendTitle(data, guess, lastGuess) ==
    LET t  == TextOf(data.title)
        t2 == IF \/ Len(t) = 0
                 \/ Len(t) > PrimaryTitleLimit
                 \/ SearchPhrases(LowerText(t), DisallowedTitleWords)
              THEN guess
              ELSE t
    IN  IF Len(t2) = 0 THEN lastGuess ELSE t2

\* bot.py 492; guess is _fallback_duration_minutes(normalized)
BlendDuration(data, guess) ==
    LET j == data.duration_minutes
    IN  IF ~Falsy(j)
        THEN IF j.t = "int" THEN j.v ELSE IntOfDigits(Strip(j.v))
        ELSE IF guess # 0 THEN guess ELSE DefaultDuration

\* bot.py 494-509: dt.datetime.fromisoformat of the stripped string, None when
\* the string is empty or fromisoformat raises.
FromIso(j) == IF ~Falsy(j) /\ j.t = "iso" THEN j.v ELSE NoDt

----------------------------------------------------------------------------
(* The time repair and the post-processing, bot.py 522-554.                *)

RepairWindow == 5

Abs(n) == IF n < 0 THEN 0 - n ELSE n

\* start_dt - now raises TypeError, bot.py 528
RepairRaises(start, explicit_time) ==
    start.some /\ explicit_time # NoneText /\ ~Comparable(start, NowDt)

\* bot.py 523-531
RepairNearNow(start, explicit_time) ==
    IF start.some /\ explicit_time # NoneText
       /\ Abs(Instant(start) - Instant(NowDt)) < RepairWindow
       /\ _combine_date_and_time(start, explicit_time).some
    THEN _combine_date_and_time(start, explicit_time)
    ELSE start

\* The second repair left out: the start keeps the time it was obtained with.
ForceExplicitTime_Skipped(start, explicit_time) == start

\* bot.py 540-545
ForceExplicitTime(start, explicit_time) ==
    IF explicit_time = NoneText THEN start
    ELSE LET combined == _combine_date_and_time(start, explicit_time)
         IN  IF combined.some
                /\ (start.hour # combined.hour \/ start.minute # combined.minute)
             THEN combined
             ELSE start

\* bot.py 547-551 and 452-453
AssignTz(x) == IF x.some /\ IsNaive(x) THEN WithCfgTz(x) ELSE x

\* bot.py 553-554
DiscardEnd(start, end) ==
    IF end.some /\ Instant(end) <= Instant(start) THEN NoDt ELSE end

----------------------------------------------------------------------------
(* The run of the handler.                                                 *)

NoCall == [called |-> FALSE]
NoResult == [kind |-> "none"]

HandlerInit ==
    /\ pc = "idle"
    /\ path = "none"
    /\ raw = <<>>
    /\ normalized = <<>>
    /\ explicit = NoExplicit
    /\ primary = "none"
    /\ title = <<>>
    /\ duration = 0
    /\ notes = <<>>
    /\ start_dt = NoDt
    /\ end_dt = NoDt
    /\ start_query = NoneText
    /\ calls = 0
    /\ passed = NoCall
    /\ result = NoResult
    /\ replies = <<>>
    /\ exc = "none"
    /\ source = "none"
    /\ transcriptions = 0
    /\ primary_calls = 0
    /\ voice_replies = <<>>

Reply(kind, detail) == replies' = Append(replies, [kind |-> kind, detail |-> detail])

\* The return after the reply left out: the run goes on to the calendar.
ExplicitNoStart_NoReturn ==
    /\ start_dt' = NoDt
    /\ Reply("fields_not_recognized", "none")
    /\ pc' = "create"

\* bot.py 446-450: no start from the fields; the reply and the return.
ExplicitNoStart ==
    /\ start_dt' = NoDt
    /\ Reply("fields_not_recognized", "none")
    /\ pc' = "done"

\* handle_text, bot.py 580-584, and bot.py 431-437: a text message arrives.
handle_text ==
    /\ pc = "idle"
    /\ \E m \in Messages :
          LET norm == _normalize_text(m)
              fields == _extract_explicit_fields(norm)
          IN  /\ raw' = m
              /\ normalized' = norm
              /\ explicit' = fields
              /\ path' = IF fields.found THEN "explicit" ELSE "blended"
    /\ pc' = "branch"
    /\ UNCHANGED <<primary, title, duration, notes, start_dt, end_dt, start_query,
                   calls, passed, result, replies, exc>>
    /\ source' = "text"
    /\ UNCHANGED <<transcriptions, primary_calls, voice_replies>>
    /\ UNCHANGED textVars

\* handle_voice, bot.py 587-609: a voice message arrives; the file is fetched,
\* speech.transcribe is called once, and the text it returns is announced and
\* handed to _handle_text_common.
handle_voice ==
    /\ pc = "idle"
    /\ source' = "voice"
    /\ \E o \in VoiceOutcomes :
          IF o.kind = "download_raises"
          THEN /\ exc' = "TelegramError"
               /\ pc' = "unhandled"
               /\ UNCHANGED <<raw, normalized, explicit, path, transcriptions, voice_replies>>
          ELSE IF o.kind = "speech_error"
          THEN /\ transcriptions' = transcriptions + 1
               /\ voice_replies' = Append(voice_replies, "voice_error")
               /\ pc' = "done"
               /\ UNCHANGED <<raw, normalized, explicit, path, exc>>
          ELSE LET norm == _normalize_text(o.text)
                   fields == _extract_explicit_fields(norm)
               IN  /\ transcriptions' = transcriptions + 1
                   /\ voice_replies' = Append(voice_replies, "transcribed")
                   /\ raw' = o.text
                   /\ normalized' = norm
                   /\ explicit' = fields
                   /\ path' = IF fields.found THEN "explicit" ELSE "blended"
                   /\ pc' = "branch"
                   /\ UNCHANGED exc
    /\ UNCHANGED <<primary, title, duration, notes, start_dt, end_dt, start_query,
                   calls, passed, result, replies, primary_calls>>
    /\ UNCHANGED textVars

\* bot.py 437-453: the explicit-field branch up to the call of the calendar.
ExplicitBranch ==
    /\ pc = "branch" /\ path = "explicit"
    /\ LET start_raw == Strip(explicit.start_datetime)
           end_raw == Strip(explicit.end_datetime)
       IN  \E s \in ParserResults(_normalize_text(start_raw)),
              e \in ParserResults(_normalize_text(end_raw)) :
              LET parsedStart == IF Len(start_raw) > 0 THEN s ELSE NoDt
                  parsedEnd == IF Len(end_raw) > 0 THEN e ELSE NoDt
              IN  /\ title' = (IF Len(Strip(explicit.title)) > 0
                               THEN Strip(explicit.title)
                               ELSE _fallback_title(normalized))
                  /\ duration' = (IF explicit.duration_minutes # 0
                                  THEN explicit.duration_minutes
                                  ELSE DefaultDuration)
                  /\ notes' = Strip(explicit.notes)
                  /\ start_query' = (IF Len(start_raw) > 0
                                     THEN _normalize_text(start_raw)
                                     ELSE NoneText)
                  /\ end_dt' = parsedEnd
                  /\ IF ~parsedStart.some
                     THEN ExplicitNoStart
                     ELSE /\ start_dt' = AssignTz(parsedStart)
                          /\ UNCHANGED replies
                          /\ pc' = "create"
    /\ UNCHANGED <<path, raw, normalized, explicit, primary, calls, passed, result, exc>>
    /\ UNCHANGED textVars
    /\ UNCHANGED callVars

\* The call made once more after it failed.
CallPrimary_Retried == primary_calls' = primary_calls + (IF primary' = "raise" THEN 2 ELSE 1)

\* data = _openai_extract_event_json(normalized, cfg), bot.py 479: one call.
CallPrimary == primary_calls' = primary_calls + 1

\* bot.py 478-509: the primary extraction and the blend of its answer.
PrimaryExtract ==
    /\ pc = "branch" /\ path = "blended"
    /\ LET notesGuess == _extract_notes_fallback(normalized)
           titleGuess == _extract_title_fallback(normalized)
           lastTitleGuess == _fallback_title(normalized)
           durationGuess == _fallback_duration_minutes(normalized)
       IN  \E o \in PrimaryOutcomes :
          LET data == IF o.kind = "dict" THEN o.data ELSE EmptyData
              raised == IF o.kind = "nondict" THEN "AttributeError"
                        ELSE BlendException(data)
          IN  /\ primary' = o.kind
              /\ IF raised # "none"
                 THEN /\ exc' = raised
                      /\ pc' = "unhandled"
                      /\ UNCHANGED <<title, duration, notes, start_dt, end_dt>>
                 ELSE /\ notes' = BlendNotes(data, notesGuess)
                      /\ title' = BlendTitle(data, titleGuess, lastTitleGuess)
                      /\ duration' = BlendDuration(data, durationGuess)
                      /\ start_dt' = FromIso(data.start_datetime)
                      /\ end_dt' = FromIso(data.end_datetime)
                      /\ pc' = "obtain"
                      /\ UNCHANGED exc
    /\ UNCHANGED <<path, raw, normalized, explicit, start_query, calls, passed, result, replies>>
    /\ CallPrimary
    /\ UNCHANGED <<source, transcriptions, voice_replies>>
    /\ UNCHANGED textVars

\* f"{base.date()} {time}", bot.py 516-517; "D" stands for the ISO date.
DateAnd(time) == <<"D", " ">> \o time

\* bot.py 511-520: no start from the primary answer; the time range and the
\* free-text parse of the whole text.
ObtainStart ==
    /\ pc = "obtain"
    /\ IF start_dt.some
       THEN UNCHANGED <<start_dt, end_dt, start_query>>
       ELSE \E range \in {_extract_time_range(normalized)} :
               \E whole \in ParserResults(normalized),
                  s \in ParserResults(DateAnd(range[1])),
                  e \in ParserResults(DateAnd(range[2])) :
                  LET viaRange == range[1] # NoneText /\ range[2] # NoneText /\ whole.some
                      st == IF viaRange THEN s ELSE NoDt
                  IN  /\ start_dt' = (IF st.some THEN st ELSE whole)
                      /\ end_dt' = (IF viaRange THEN e ELSE end_dt)
                      /\ start_query' = normalized
    /\ pc' = "repair"
    /\ UNCHANGED <<path, raw, normalized, explicit, primary, title, duration, notes,
                   calls, passed, result, replies, exc>>
    /\ UNCHANGED textVars
    /\ UNCHANGED callVars

\* bot.py 522-554: the two repairs of the start, the reply when there is no
\* start, the time zone of naive timestamps and the end that is not after the start.
RepairAndPostProcess ==
    /\ pc = "repair"
    /\ LET explicit_time == _extract_first_time(normalized)
           repaired == ForceExplicitTime(RepairNearNow(start_dt, explicit_time), explicit_time)
       IN  IF RepairRaises(start_dt, explicit_time)
           THEN /\ exc' = "TypeError"
                /\ pc' = "unhandled"
                /\ UNCHANGED <<start_dt, end_dt, replies>>
           ELSE IF ~start_dt.some
           THEN /\ Reply("not_recognized", "none")
                /\ pc' = "done"
                /\ UNCHANGED <<start_dt, end_dt, exc>>
           ELSE /\ start_dt' = AssignTz(repaired)
                /\ end_dt' = DiscardEnd(AssignTz(repaired), AssignTz(end_dt))
                /\ pc' = "create"
                /\ UNCHANGED <<replies, exc>>
    /\ UNCHANGED <<path, raw, normalized, explicit, primary, title, duration, notes,
                   start_query, calls, passed, result>>
    /\ UNCHANGED textVars
    /\ UNCHANGED callVars

\* cal.create_event(...) is called, bot.py 456-462 and 557-563;
\* CalendarService.create_event builds the body, calendar_service.py 80-90.
create_event ==
    /\ pc = "create"
    /\ calls' = calls + 1
    /\ passed' = [called |-> TRUE, title |-> title, start_dt |-> start_dt,
                  duration_minutes |-> duration, end_dt |-> end_dt,
                  description |-> notes,
                  body_end |-> IF end_dt.some THEN end_dt
                               ELSE AddMinutes(start_dt, duration)]
    /\ pc' = "get_service"
    /\ UNCHANGED <<path, raw, normalized, explicit, primary, title, duration, notes,
                   start_dt, end_dt, start_query, result, replies, exc>>
    /\ UNCHANGED textVars
    /\ UNCHANGED callVars

\* service = self.get_service(), calendar_service.py 92: outside the try block.
get_service ==
    /\ pc = "get_service"
    /\ \E o \in GetServiceOutcomes :
          IF o = "raises"
          THEN /\ result' = [kind |-> "raised", type |-> "Exception", cause |-> "get_service"]
               /\ exc' = "Exception"
               /\ pc' = "unhandled"
          ELSE /\ pc' = "insert"
               /\ UNCHANGED <<result, exc>>
    /\ UNCHANGED <<path, raw, normalized, explicit, primary, title, duration, notes,
                   start_dt, end_dt, start_query, calls, passed, replies>>
    /\ UNCHANGED textVars
    /\ UNCHANGED callVars

\* calendar_service.py 93-105: the insert, its exceptions wrapped.
insert_event ==
    /\ pc = "insert"
    /\ \E o \in InsertOutcomes :
          result' = IF o \in {"HttpError", "Exception"}
                    THEN [kind |-> "raised", type |-> "CalendarServiceError", cause |-> o]
                    ELSE [kind |-> "returned", link |-> o = "link"]
    /\ pc' = "returned"
    /\ UNCHANGED <<path, raw, normalized, explicit, primary, title, duration, notes,
                   start_dt, end_dt, start_query, calls, passed, replies, exc>>
    /\ UNCHANGED textVars
    /\ UNCHANGED callVars

\* The return after the calendar error left out: the confirmation follows it.
ReplyAfterCreate_Both ==
    /\ pc = "returned"
    /\ IF result.kind = "raised"
       THEN replies' = replies \o <<[kind |-> "calendar_error", detail |-> result.cause],
                                    [kind |-> "confirmation", detail |-> "none"]>>
       ELSE Reply("confirmation", "none")
    /\ pc' = "done"
    /\ UNCHANGED <<path, raw, normalized, explicit, primary, title, duration, notes,
                   start_dt, end_dt, start_query, calls, passed, result, exc>>
    /\ UNCHANGED textVars
    /\ UNCHANGED callVars

\* bot.py 463-476 and 564-577: the reply after cal.create_event.
ReplyAfterCreate ==
    /\ pc = "returned"
    /\ IF result.kind = "raised"
       THEN Reply("calendar_error", result.cause)
       ELSE Reply("confirmation", "none")
    /\ pc' = "done"
    /\ UNCHANGED <<path, raw, normalized, explicit, primary, title, duration, notes,
                   start_dt, end_dt, start_query, calls, passed, result, exc>>
    /\ UNCHANGED textVars
    /\ UNCHANGED callVars

\* error_handler, bot.py 612-620: an exception left the handler.
error_handler ==
    /\ pc = "unhandled"
    /\ Reply("apology", "none")
    /\ pc' = "done"
    /\ UNCHANGED <<path, raw, normalized, explicit, primary, title, duration, notes,
                   start_dt, end_dt, start_query, calls, passed, result, exc>>
    /\ UNCHANGED textVars
    /\ UNCHANGED callVars

\* The run is over and its locals are gone; the bot waits for the next update.
NextUpdate ==
    /\ pc = "done"
    /\ pc' = "idle"
    /\ path' = "none"
    /\ raw' = <<>>
    /\ normalized' = <<>>
    /\ explicit' = NoExplicit
    /\ primary' = "none"
    /\ title' = <<>>
    /\ duration' = 0
    /\ notes' = <<>>
    /\ start_dt' = NoDt
    /\ end_dt' = NoDt
    /\ start_query' = NoneText
    /\ calls' = 0
    /\ passed' = NoCall
    /\ result' = NoResult
    /\ replies' = <<>>
    /\ exc' = "none"
    /\ source' = "none"
    /\ transcriptions' = 0
    /\ primary_calls' = 0
    /\ voice_replies' = <<>>
    /\ UNCHANGED textVars

Init == TextInit /\ HandlerInit

Next ==
    \/ handle_text
    \/ handle_voice
    \/ ExplicitBranch
    \/ PrimaryExtract
    \/ ObtainStart
    \/ RepairAndPostProcess
    \/ create_event
    \/ get_service
    \/ insert_event
    \/ ReplyAfterCreate
    \/ error_handler
    \/ NextUpdate

Spec == Init /\ [][Next]_vars

SpecText == Init /\ [][TextNext]_vars

----------------------------------------------------------------------------
(* The claims.                                                             *)

\* f"{x.hour:02d}:{x.minute:02d}": the clock time of a datetime as HH:MM.
ClockOf(x) == Fmt2(x.hour) \o <<":">> \o Fmt2(x.minute)

FieldsReply == [kind |-> "fields_not_recognized", detail |-> "none"]

\* C1: on both paths, the end passed to cal.create_event is absent or strictly
\* after the start passed.
C1_EndAfterStart ==
    passed.called /\ passed.end_dt.some
        => Instant(passed.end_dt) > Instant(passed.start_dt)

\* C2: when the run is over, cal.create_event was called exactly once if a
\* start datetime was obtained and not at all if none was.
C2_OneCallIffStart ==
    pc = "done" => calls = (IF start_dt.some THEN 1 ELSE 0)

\* C3: a failure of the primary extraction (the call raises, or the answer is
\* no JSON object or holds unusable field values) never leaves the handler as
\* an exception; after a raised call the run goes on with the guessers and, if
\* a start is obtained, dispatches an event with the duration guesser's value.
C3_PrimaryFailureNotSurfaced ==
    /\ exc \notin {"AttributeError", "ValueError"}
    /\ (pc = "done" /\ primary = "raise" /\ start_dt.some
          => /\ passed.called
             /\ passed.duration_minutes = _fallback_duration_minutes(normalized))

C5_NaiveNeverAborts ==
    /\ exc # "TypeError"
    /\ (passed.called
          => /\ ~IsNaive(passed.start_dt)
             /\ (passed.end_dt.some => ~IsNaive(passed.end_dt)))

\* C6: in the explicit-field branch, once the start did not parse, the run is
\* over with the reply about the fields as its only reply: the primary
\* extraction was not called, the whole message was not given to the free-text
\* parser, and cal.create_event was not called.
C6_ExplicitNoFallback ==
    path = "explicit" /\ pc \notin {"idle", "branch"} /\ ~start_dt.some
        => /\ pc = "done"
           /\ replies = <<FieldsReply>>
           /\ primary = "none"
           /\ start_query # normalized
           /\ calls = 0 /\ ~passed.called
           /\ exc = "none"

\* C6's case: a title line and a time line but no date line; the start is
\* empty and the run ended with the reply about the fields.
C6_Witness ==
    /\ pc = "done" /\ path = "explicit"
    /\ raw = L_title \o <<"\n">> \o L_time
    /\ Len(explicit.start_datetime) = 0
    /\ replies = <<FieldsReply>>

\* C7: the duration passed to cal.create_event is a positive integer.
C7_DurationPositive == passed.called => passed.duration_minutes > 0

\* C8: the title passed to cal.create_event is non-empty and at most
\* TitleLimit (120) characters long.
C8_TitleBounded ==
    passed.called => Len(passed.title) > 0 /\ Len(passed.title) <= TitleLimit

\* C9: every failure of CalendarService.create_event is raised as a
\* CalendarServiceError, and the run then ends with the calendar error reply
\* that carries the cause, and with no confirmation.
C9_CalendarFailureReported ==
    /\ (result.kind = "raised" => result.type = "CalendarServiceError")
    /\ (pc = "done" /\ result.kind = "raised"
          => replies = <<[kind |-> "calendar_error", detail |-> result.cause]>>)

\* C10: the normalizer is idempotent: normalizing a normalized text changes
\* nothing, _normalize_text(_normalize_text(x)) = _normalize_text(x).
C10_NormalizeIdempotent == stage = "twice" => twice = once

\* The first HH:MM of t whose hour is 0-23 and whose minute is 0-59, as the
\* claim describes the result: pairs out of range are passed over.
FirstValidTime(t) ==
    LET valid(m) == m.len > 0 /\ IntOf(m.g1) <= 23 /\ IntOf(m.g2) <= 59
        shown(m) == Fmt2(IntOf(m.g1)) \o <<":">> \o Fmt2(IntOf(m.g2))
        first(ms) ==
            LET ok == {i \in DOMAIN ms : valid(ms[i])}
            IN  IF ok = {} THEN NoneText ELSE shown(ms[Min(ok)])
    IN  first(Matches([i \in 1..Len(t) |-> ClockAt(t, i)]))

\* C11: _extract_first_time returns the first HH:MM of the text whose hour is
\* 0-23 and minute is 0-59, and nothing only when the text has no such pair:
\* an earlier pair out of range does not hide a later valid one.
C11_FirstValidTime == stage = "guessed" => first_time = FirstValidTime(once)

\* The hour a day part turns h into, as the claim states it.
ClaimedHour(h, part) ==
    CASE part \in {W_vechera, W_dnya} /\ 1 <= h /\ h <= 11 -> h + 12
      [] part = W_nochi /\ h = 12 -> 0
      [] OTHER -> h

\* The hours a spoken time is typed with in SpecText, and their values.
SpokenHours ==
    { [said |-> <<"3">>, value |-> 3], [said |-> <<"5">>, value |-> 5],
      [said |-> <<"1", "2">>, value |-> 12], [said |-> <<"2", "5">>, value |-> 25],
      [said |-> W_pyat \o <<" ">> \o W_chas \o W_ov, value |-> 5] }

Spoken(said, part) == W_v \o <<" ">> \o said \o <<" ">> \o part

\* C12: the normalizer rewrites "в <hour> <part>" to HH:00, where evening and
\* afternoon add 12 to the hours 1..11 and leave 12, night turns 12 into 0 and
\* any other case leaves the hour; an hour above 23 leaves the text untouched;
\* so every HH:00 of a normalized text has HH in 00..23.
C12_DayPartConversion ==
    stage # "typing" =>
        /\ \A h \in SpokenHours : \A k \in DOMAIN PartWords :
              text = Spoken(h.said, PartWords[k]) =>
                  once = (IF h.value <= 23
                          THEN Fmt2(ClaimedHour(h.value, PartWords[k])) \o <<":", "0", "0">>
                          ELSE text)
        /\ \A i \in 1..Len(once) :
              LET inDay(m) == m.len > 0 /\ m.g2 = <<"0", "0">>
                                 => Len(m.g1) = 2 /\ IntOf(m.g1) <= 23
              IN  inDay(ClockAt(once, i))

\* C12's case: "в 12 ночи" was normalized to 00:00.
C12_Witness ==
    /\ stage = "once"
    /\ text = Spoken(<<"1", "2">>, W_nochi)
    /\ once = <<"0", "0", ":", "0", "0">>

\* The number in front of position k of t: the digits of the word that
\* immediately precedes a unit token found at k.
NumberInFrontOf(t, k) == DigitsOf(LastWord(SubSeq(t, 1, k - 1)))

\* The minutes of the valid duration cue at position k of t, 0 if there is none:
\* a minutes token behind a number in 5..1440, or an hours token behind a
\* number in 1..24.
CueAt(t, k) ==
    LET unit(tokens) == \E n \in DOMAIN tokens : LitAt(t, k, tokens[n])
        cue(ds) ==
            LET num == IF Len(ds) = 0 THEN 0 ELSE IntOfDigits(ds)
            IN  IF unit(MinuteTokens) /\ MinMinutes <= num /\ num <= MaxMinutes THEN num
                ELSE IF unit(HourTokens) /\ MinHours <= num /\ num <= MaxHours
                     THEN num * MinutesPerHour
                ELSE 0
    IN  cue(NumberInFrontOf(t, k))

\* The first valid duration cue of t, 60 when t has none: the result the claim
\* describes.
FirstValidCue(t) ==
    LET first(cues) ==
            LET at == {k \in DOMAIN cues : cues[k] > 0}
            IN  IF at = {} THEN DefaultDuration ELSE cues[Min(at)]
    IN  first([k \in 1..Len(t) |-> CueAt(t, k)])

\* C15: _fallback_duration_minutes returns the first valid duration cue of the
\* text and 60 only if the text has none (an earlier invalid or number-less
\* unit token does not hide a later valid cue); the result is in 5..1440.
C15_FirstValidCue ==
    stage = "guessed" =>
        /\ guessed_minutes = FirstValidCue(once)
        /\ MinMinutes <= guessed_minutes /\ guessed_minutes <= MaxMinutes

\* 13.02.2026 12:00
DottedStart ==
    <<"1", "3", ".", "0", "2", ".", "2", "0", "2", "6", " ", "1", "2", ":", "0", "0">>

\* C13: for the message of the two lines "дата - 13.02.2026" and
\* "время - 12:00" the run takes the explicit-field path, the title is the
\* placeholder "Встреча", the text handed to the date parser for the start is
\* "13.02.2026 12:00" as written, the start is at 12:00 and the duration is 60.
C13_DottedDateScenario ==
    raw = L_dotdate \o <<"\n">> \o L_time /\ pc \notin {"idle", "branch"}
        => /\ path = "explicit"
           /\ title = T_Vstrecha
           /\ start_query = DottedStart
           /\ (start_dt.some => ClockOf(start_dt) = <<"1", "2", ":", "0", "0">>)
           /\ duration = DefaultDuration

\* C14: no external call is repeated within one message: the generative
\* service is called exactly once on the blended path and never with explicit
\* fields, speech.transcribe at most once and for voice messages only,
\* cal.create_event at most once; a failed call is not made a second time.
C14_NoCallRepeated ==
    /\ primary_calls <= 1 /\ transcriptions <= 1 /\ calls <= 1
    /\ (path = "explicit" => primary_calls = 0)
    /\ (path = "blended" /\ pc \notin {"idle", "branch"} => primary_calls = 1)
    /\ (source # "voice" => transcriptions = 0)
    /\ (source = "voice" /\ path # "none" => transcriptions = 1)
    /\ (primary = "raise" => primary_calls = 1)
    /\ (result.kind = "raised" => calls = 1)

\* C14's case: a voice message was transcribed, the generative service failed,
\* the calendar failed, and the run is over with one call of each.
C14_Witness ==
    /\ pc = "done" /\ source = "voice"
    /\ transcriptions = 1
    /\ primary = "raise" /\ primary_calls = 1
    /\ result.kind = "raised" /\ calls = 1

\* The replies a run of _handle_text_common ends with.
FinalReplies == {"fields_not_recognized", "not_recognized", "calendar_error", "confirmation"}

\* C16: a run of _handle_text_common that ends without an unhandled exception
\* has sent exactly one reply, which is the date/time error, the calendar
\* error or the confirmation; the confirmation is sent only after
\* cal.create_event returned; no reply is followed by a call of cal.create_event.
C16_OneReplyPerRun ==
    /\ [](/\ (pc = "done" /\ exc = "none" /\ path # "none"
                => Len(replies) = 1 /\ replies[1].kind \in FinalReplies)
          /\ (\A i \in DOMAIN replies :
                replies[i].kind = "confirmation" => result.kind = "returned"))
    /\ [][Len(replies) > 0 => calls' <= calls]_vars

\* C16's case: the calendar returned and the run ended with the confirmation
\* as its only reply.
C16_Witness ==
    /\ pc = "done" /\ exc = "none" /\ path = "blended"
    /\ calls = 1 /\ result.kind = "returned"
    /\ replies = <<[kind |-> "confirmation", detail |-> "none"]>>

====
